---------------------------- MODULE Spec2Model ----------------------------
(***************************************************************************)
(* JarvisChat (src/app.py): the streaming chat relay.                      *)
(*                                                                         *)
(* The durable store is the SQLite tables conversations, messages,         *)
(* settings and profile.  POST /api/chat runs the handler chat() and then  *)
(* the async generator stream_response(), which is suspended at every      *)
(* await and at every yield; those suspension points are the steps of the  *)
(* relay below.  Text is a sequence of one-character strings.              *)
(***************************************************************************)
EXTENDS Naturals, Sequences, FiniteSets, TLC

VARIABLES
    conversations,  \* table conversations: id -> [title, model, created_at, updated_at]
    messages,       \* table messages, in id order: [conversation_id, role, content, created_at]
    settings,       \* table settings: key -> value
    profile,        \* table profile, row id = 1: its content
    clock,          \* datetime.now(timezone.utc)
    minted,         \* number of uuid4 conversation ids minted so far
    pc,             \* per request: where its handler / generator stands
    status,         \* per request: the HTTP status of the response, 0 before it
    body,           \* per request: the JSON body of the submission
    now,            \* per request: chat()'s local now
    conv_id,        \* per request: chat()'s local conv_id
    system_prompt,  \* per request: chat()'s local system_prompt
    payload,        \* per request: ollama_payload["messages"]
    opened,         \* per request: streaming requests opened to the backend
    backend,        \* per request: what became of the backend connection
    recv,           \* per request: the backend lines read so far
    chunk,          \* per request: the line being handled while suspended at a yield
    full_response,  \* per request: stream_response()'s local full_response
    db2,            \* per request: stream_response()'s connection db2
    out             \* per request: the events yielded to the client

store == <<conversations, messages, settings, profile, clock, minted>>
relay == <<pc, status, body, now, conv_id, system_prompt, payload, opened, backend,
           recv, chunk, full_response, db2, out>>
handler == <<status, body, now, conv_id, system_prompt, payload>>
vars == <<conversations, messages, settings, profile, clock, minted,
          pc, status, body, now, conv_id, system_prompt, payload, opened, backend,
          recv, chunk, full_response, db2, out>>

---------------------------------------------------------------------------
(* Bounds of the model *)

MaxReq == 2         \* chat submissions, possibly concurrent
MaxLines == 2       \* backend lines read per relay, several relays at once
MaxRelayLines == 3  \* backend lines read by the relay taken alone

Requests == 1 .. MaxReq

---------------------------------------------------------------------------
(* Text *)

Space == {" ", "\t", "\n"}

RECURSIVE LStrip(_)
LStrip(s) == IF s # <<>> /\ Head(s) \in Space THEN LStrip(Tail(s)) ELSE s

RECURSIVE RStrip(_)
RStrip(s) ==
    IF s # <<>> /\ s[Len(s)] \in Space THEN RStrip(SubSeq(s, 1, Len(s) - 1)) ELSE s

\* The message taken as sent, without .strip()
Strip_None(s) == s

\* str.strip()
Strip(s) == RStrip(LStrip(s))

\* s[:n]
Prefix(s, n) == SubSeq(s, 1, IF Len(s) < n THEN Len(s) ELSE n)

RECURSIVE Join(_, _)
\* sep.join(parts)
Join(sep, parts) ==
    IF parts = <<>> THEN <<>>
    ELSE IF Len(parts) = 1 THEN parts[1]
    ELSE parts[1] \o sep \o Join(sep, Tail(parts))

---------------------------------------------------------------------------
(* Program constants *)

DEFAULT_MODEL == "deepseek-coder:6.7b"

TitleLen == 80

Ellipsis == <<".", ".", ".">>

Separator == <<"\n", "\n", "-", "-", "-", "\n", "\n">>

\* body.get("conversation_id") when the key is absent, null or ""
NoConv == 0

---------------------------------------------------------------------------
(* The store *)

\* dict.get(key, default)
Get(d, key, default) == IF key \in DOMAIN d THEN d[key] ELSE default

\* INSERT / UPDATE of one row of a table keyed by id
Put(table, id, row) ==
    [k \in DOMAIN table \cup {id} |-> IF k = id THEN row ELSE table[k]]

\* The same SELECT with ORDER BY id DESC
History_Desc(msgs, cid) ==
    LET rows == SelectSeq(msgs, LAMBDA m : m.conversation_id = cid)
    IN  [i \in 1 .. Len(rows) |->
            [role |-> rows[Len(rows) + 1 - i].role,
             content |-> rows[Len(rows) + 1 - i].content]]

\* SELECT role, content FROM messages WHERE conversation_id = ? ORDER BY id ASC
History(msgs, cid) ==
    LET rows == SelectSeq(msgs, LAMBDA m : m.conversation_id = cid)
    IN  [i \in 1 .. Len(rows) |-> [role |-> rows[i].role, content |-> rows[i].content]]

\* The row chat() inserts for the user turn
UserRow(cid, text, at) ==
    [conversation_id |-> cid, role |-> "user", content |-> text, created_at |-> at]

\* The row stream_response() inserts for the assistant turn
AssistantRow(cid, text, at) ==
    [conversation_id |-> cid, role |-> "assistant", content |-> text, created_at |-> at]

\* An insert that skips a row repeating the last turn of its conversation
InsertMessage_Dedup(msgs, row) ==
    LET rows == SelectSeq(msgs, LAMBDA m : m.conversation_id = row.conversation_id)
    IN  IF /\ rows # <<>>
           /\ rows[Len(rows)].role = row.role
           /\ rows[Len(rows)].content = row.content
        THEN msgs ELSE Append(msgs, row)

\* INSERT INTO messages (conversation_id, role, content, created_at): the
\* AUTOINCREMENT id puts the row after every row there is
InsertMessage(msgs, row) == Append(msgs, row)

\* The connection without the pragma: the reference is not enforced
ForeignKeyOk_Off(convs, cid) == TRUE

\* PRAGMA foreign_keys = ON: messages.conversation_id REFERENCES conversations(id)
ForeignKeyOk(convs, cid) == cid \in DOMAIN convs

\* The same without the ellipsis: title = user_message[:80]
Title_Cut(user_message) == Prefix(user_message, TitleLen)

\* title = user_message[:80] + ("..." if len(user_message) > 80 else "")
Title(user_message) ==
    Prefix(user_message, TitleLen)
        \o (IF Len(user_message) > TitleLen THEN Ellipsis ELSE <<>>)

\* The same with the flag compared whatever its case
build_system_prompt_AnyCase(st, prof, extra_prompt) ==
    LET fromProfile ==
            IF Get(st, "profile_enabled", "true") \in {"true", "True"} /\ Strip(prof) # <<>>
            THEN <<Strip(prof)>> ELSE <<>>
        fromPreset ==
            IF extra_prompt # <<>> /\ Strip(extra_prompt) # <<>>
            THEN <<Strip(extra_prompt)>> ELSE <<>>
        parts == fromProfile \o fromPreset
    IN  IF parts # <<>> THEN Join(Separator, parts) ELSE <<>>

\* The same with the preset tested as sent: if extra_prompt
build_system_prompt_NoTrim(st, prof, extra_prompt) ==
    LET fromProfile ==
            IF Get(st, "profile_enabled", "true") = "true" /\ Strip(prof) # <<>>
            THEN <<Strip(prof)>> ELSE <<>>
        fromPreset == IF extra_prompt # <<>> THEN <<Strip(extra_prompt)>> ELSE <<>>
        parts == fromProfile \o fromPreset
    IN  IF parts # <<>> THEN Join(Separator, parts) ELSE <<>>

\* build_system_prompt(db, extra_prompt)
build_system_prompt(st, prof, extra_prompt) ==
    LET fromProfile ==
            IF Get(st, "profile_enabled", "true") = "true" /\ Strip(prof) # <<>>
            THEN <<Strip(prof)>> ELSE <<>>
        fromPreset ==
            IF extra_prompt # <<>> /\ Strip(extra_prompt) # <<>>
            THEN <<Strip(extra_prompt)>> ELSE <<>>
        parts == fromProfile \o fromPreset
    IN  IF parts # <<>> THEN Join(Separator, parts) ELSE <<>>

\* The same with the system message always sent, empty or not
BuildMessages_Always(prompt, history_rows) ==
    <<[role |-> "system", content |-> prompt]>> \o history_rows

\* messages = [system message if system_prompt] + history rows
BuildMessages(prompt, history_rows) ==
    (IF prompt # <<>>
     THEN <<[role |-> "system", content |-> prompt]>> ELSE <<>>)
        \o history_rows

---------------------------------------------------------------------------
(* POST /api/chat: the handler chat(), up to returning the StreamingResponse *)

\* A connection in autocommit mode: each statement is visible as it is executed
Uncommitted_Autocommit(before, written) == written

\* What the other connections see of a table written in a transaction that
\* raised before db.commit(): the table as it was
Uncommitted(before, written) == before

\* b is the JSON body and db what the store answers to the INSERT of the user
\* row and the commit: done, or sqlite3.Error
chat(r, b, db) ==
    LET user_message == Strip(b.message)
        fresh == minted + 1
        cid == IF b.conversation_id = NoConv THEN fresh ELSE b.conversation_id
        convs1 ==
            IF b.conversation_id = NoConv
            THEN Put(conversations, cid,
                     [title |-> Title(user_message), model |-> b.model,
                      created_at |-> clock, updated_at |-> clock])
            ELSE IF cid \in DOMAIN conversations
            THEN Put(conversations, cid, [conversations[cid] EXCEPT !.updated_at = clock])
            ELSE conversations
        msgs1 == InsertMessage(messages, UserRow(cid, user_message, clock))
    IN  /\ pc[r] = "idle"
        /\ body' = [body EXCEPT ![r] = b]
        /\ IF user_message = <<>>
           THEN \* HTTPException(status_code=400) before get_db()
                /\ pc' = [pc EXCEPT ![r] = "rejected"]
                /\ status' = [status EXCEPT ![r] = 400]
                /\ UNCHANGED <<conversations, messages, clock, minted, now, conv_id,
                               system_prompt, payload>>
           ELSE IF db = "error" \/ ~ForeignKeyOk(convs1, cid)
           THEN \* sqlite3.Error or IntegrityError on the INSERT: the handler
                \* raises before line 389, nothing is committed, HTTP 500
                /\ pc' = [pc EXCEPT ![r] = "crashed"]
                /\ status' = [status EXCEPT ![r] = 500]
                /\ clock' = clock + 1
                /\ now' = [now EXCEPT ![r] = clock]
                /\ minted' = IF b.conversation_id = NoConv THEN fresh ELSE minted
                /\ conversations' = Uncommitted(conversations, convs1)
                /\ conv_id' = [conv_id EXCEPT ![r] = cid]
                /\ UNCHANGED <<messages, system_prompt, payload>>
           ELSE /\ pc' = [pc EXCEPT ![r] = "sending"]
                /\ status' = [status EXCEPT ![r] = 200]
                /\ clock' = clock + 1
                /\ now' = [now EXCEPT ![r] = clock]
                /\ minted' = IF b.conversation_id = NoConv THEN fresh ELSE minted
                /\ conversations' = convs1
                /\ messages' = msgs1
                /\ conv_id' = [conv_id EXCEPT ![r] = cid]
                /\ system_prompt' = [system_prompt EXCEPT ![r] =
                       build_system_prompt(settings, profile, b.system_prompt)]
                /\ payload' = [payload EXCEPT ![r] =
                       BuildMessages(system_prompt'[r], History(msgs1, cid))]
        /\ UNCHANGED <<settings, profile, opened, backend, recv, chunk, full_response,
                       db2, out>>

\* A composer that keeps what it composed as the profile
compose_remember(r, extra_prompt) ==
    /\ pc[r] = "idle"
    /\ pc' = [pc EXCEPT ![r] = "composed"]
    /\ body' = [body EXCEPT ![r].system_prompt = extra_prompt]
    /\ system_prompt' = [system_prompt EXCEPT ![r] =
           build_system_prompt(settings, profile, extra_prompt)]
    /\ profile' = system_prompt'[r]
    /\ UNCHANGED <<conversations, messages, settings, clock, minted,
                   status, now, conv_id, payload,
                   opened, backend, recv, chunk, full_response, db2, out>>

\* build_system_prompt(db, extra_prompt) called on its own: call r, on the
\* store as it stands
compose(r, extra_prompt) ==
    /\ pc[r] = "idle"
    /\ pc' = [pc EXCEPT ![r] = "composed"]
    /\ body' = [body EXCEPT ![r].system_prompt = extra_prompt]
    /\ system_prompt' = [system_prompt EXCEPT ![r] =
           build_system_prompt(settings, profile, extra_prompt)]
    /\ UNCHANGED <<conversations, messages, settings, profile, clock, minted,
                   status, now, conv_id, payload,
                   opened, backend, recv, chunk, full_response, db2, out>>

---------------------------------------------------------------------------
(* One line of the backend's newline-delimited stream.                     *)
(*   kind     blank | malformed | number | array | object                  *)
(*   message  the "message" member: absent | number | object               *)
(*   content  the "content" member of message: absent | number | string    *)
(*   text     the content when it is a string                              *)
(*   done     the "done" member: absent | false | true                     *)

Line(kind, message, content, text, done) ==
    [kind |-> kind, message |-> message, content |-> content, text |-> text, done |-> done]

BlankLine == Line("blank", "absent", "absent", <<>>, "absent")
MalformedLine == Line("malformed", "absent", "absent", <<>>, "absent")
NumberLine == Line("number", "absent", "absent", <<>>, "absent")
ArrayLine == Line("array", "absent", "absent", <<>>, "absent")
EmptyObjectLine == Line("object", "absent", "absent", <<>>, "absent")
BadMessageLine == Line("object", "number", "absent", <<>>, "absent")
NoContentLine == Line("object", "object", "absent", <<>>, "absent")
BadContentLine == Line("object", "object", "number", <<>>, "absent")
NotDoneLine == Line("object", "absent", "absent", <<>>, "false")
DoneLine == Line("object", "absent", "absent", <<>>, "true")
Fragment(text) == Line("object", "object", "string", text, "absent")
LastFragment(text) == Line("object", "object", "string", text, "true")

\* if line.strip()
NonBlank(line) == line.kind # "blank"

\* json.loads(line) raises json.JSONDecodeError
JSONDecodeError(line) == line.kind = "malformed"

\* "message" in chunk and "content" in chunk["message"] raises TypeError:
\* chunk is a number, or chunk["message"] is one
MessageTestRaises(line) ==
    \/ line.kind = "number"
    \/ line.kind = "object" /\ line.message = "number"

\* "message" in chunk and "content" in chunk["message"]
HasContent(line) ==
    line.kind = "object" /\ line.message = "object" /\ line.content # "absent"

\* token = chunk["message"]["content"]
Token(line) == [str |-> line.content = "string", text |-> line.text]

\* chunk.get("done") raises AttributeError: chunk is a list
DoneTestRaises(line) == line.kind = "array"

\* if "done" in chunk: the flag taken as set whenever the member is present
DoneFlag_Present(line) == line.kind = "object" /\ line.done # "absent"

\* elif chunk.get("done"): the flag ignored on a line that carries content
DoneFlag_Elif(line) == line.kind = "object" /\ line.done = "true" /\ ~HasContent(line)

\* if chunk.get("done")
DoneFlag(line) == line.kind = "object" /\ line.done = "true"

\* "".join(full_response) raises TypeError: some item is not a str
JoinRaises(tokens) == \E i \in 1 .. Len(tokens) : ~tokens[i].str

\* "".join(full_response)
JoinTokens(tokens) == Join(<<>>, [i \in 1 .. Len(tokens) |-> tokens[i].text])

(* The events of the client-facing stream *)

\* A token event that carries the id as the client sent it, none for a new chat
TokenEvent_Unresolved(token, cid) == [token |-> token, conversation_id |-> NoConv]

TokenEvent(token, cid) == [token |-> token, conversation_id |-> cid]
DoneEvent(cid) == [done |-> TRUE, conversation_id |-> cid]
ErrorEvent(msg) == [error |-> msg]

CannotConnect == "Cannot connect to Ollama. Is it running?"
OtherError == "str(e)"

IsToken(e) == "token" \in DOMAIN e
IsDone(e) == "done" \in DOMAIN e
IsError(e) == "error" \in DOMAIN e

---------------------------------------------------------------------------
(* stream_response(): the generator, from one suspension point to the next *)

\* No done event was yielded by relay r
Emitted_done_none(r) == \A i \in 1 .. Len(out[r]) : ~IsDone(out[r][i])

\* A failure that is reported on every stream in flight
Fail_Broadcast(r, o, msg) ==
    /\ pc' = [pc EXCEPT ![r] = "failed"]
    /\ out' = [q \in Requests |->
                  IF q = r THEN Append(o, ErrorEvent(msg))
                  ELSE IF pc[q] \in {"streaming", "yield_token", "yield_done"}
                  THEN Append(out[q], ErrorEvent(msg)) ELSE out[q]]

\* except httpx.ConnectError / except Exception: one error event, generator ends
Fail(r, o, msg) ==
    /\ pc' = [pc EXCEPT ![r] = "failed"]
    /\ out' = [out EXCEPT ![r] = Append(o, ErrorEvent(msg))]

\* A completion that sends the done event and leaves the row unwritten
Completion_DoneFirst(r, line, tokens, o, db) ==
    IF DoneTestRaises(line) \/ (DoneFlag(line) /\ JoinRaises(tokens))
    THEN Fail(r, o, OtherError) /\ UNCHANGED <<messages, clock, db2>>
    ELSE IF ~DoneFlag(line)
    THEN /\ pc' = [pc EXCEPT ![r] = "streaming"]
         /\ out' = [out EXCEPT ![r] = o]
         /\ UNCHANGED <<messages, clock, db2>>
    ELSE /\ pc' = [pc EXCEPT ![r] = "yield_done"]
         /\ out' = [out EXCEPT ![r] = Append(o, DoneEvent(conv_id[r]))]
         /\ UNCHANGED <<messages, clock, db2>>

\* A completion that ignores what the store answers: the done event is sent
\* whether the row was written or not
Completion_Swallow(r, line, tokens, o, db) ==
    IF DoneTestRaises(line) \/ (DoneFlag(line) /\ JoinRaises(tokens))
    THEN Fail(r, o, OtherError) /\ UNCHANGED <<messages, clock, db2>>
    ELSE IF ~DoneFlag(line)
    THEN /\ pc' = [pc EXCEPT ![r] = "streaming"]
         /\ out' = [out EXCEPT ![r] = o]
         /\ UNCHANGED <<messages, clock, db2>>
    ELSE /\ IF db = "error" \/ ~ForeignKeyOk(conversations, conv_id[r])
            THEN db2' = [db2 EXCEPT ![r] = "error"] /\ UNCHANGED messages
            ELSE /\ db2' = [db2 EXCEPT ![r] = "closed"]
                 /\ messages' = InsertMessage(messages,
                        AssistantRow(conv_id[r], JoinTokens(tokens), clock))
         /\ clock' = clock + 1
         /\ pc' = [pc EXCEPT ![r] = "yield_done"]
         /\ out' = [out EXCEPT ![r] = Append(o, DoneEvent(conv_id[r]))]

\* A completion whose INSERT does not look for the conversation: the row is
\* written and the done event sent for a conversation that was deleted
Completion_Orphan(r, line, tokens, o, db) ==
    IF DoneTestRaises(line) \/ (DoneFlag(line) /\ JoinRaises(tokens))
    THEN Fail(r, o, OtherError) /\ UNCHANGED <<messages, clock, db2>>
    ELSE IF ~DoneFlag(line)
    THEN /\ pc' = [pc EXCEPT ![r] = "streaming"]
         /\ out' = [out EXCEPT ![r] = o]
         /\ UNCHANGED <<messages, clock, db2>>
    ELSE IF db = "error"
    THEN /\ Fail(r, o, OtherError)
         /\ clock' = clock + 1
         /\ db2' = [db2 EXCEPT ![r] = "error"]
         /\ UNCHANGED messages
    ELSE /\ messages' = InsertMessage(messages,
                               AssistantRow(conv_id[r], JoinTokens(tokens), clock))
         /\ clock' = clock + 1
         /\ db2' = [db2 EXCEPT ![r] = "closed"]
         /\ pc' = [pc EXCEPT ![r] = "yield_done"]
         /\ out' = [out EXCEPT ![r] = Append(o, DoneEvent(conv_id[r]))]

\* Lines 434-443: the completion test of the line in hand, with tokens and o
\* the accumulator and the emitted events after lines 430-433, and db what
\* the store answers to the INSERT and the commit if it comes to them
Completion(r, line, tokens, o, db) ==
    IF DoneTestRaises(line)
    THEN Fail(r, o, OtherError) /\ UNCHANGED <<messages, clock, db2>>
    ELSE IF ~DoneFlag(line)
    THEN /\ pc' = [pc EXCEPT ![r] = "streaming"]
         /\ out' = [out EXCEPT ![r] = o]
         /\ UNCHANGED <<messages, clock, db2>>
    ELSE IF JoinRaises(tokens)
    THEN Fail(r, o, OtherError) /\ UNCHANGED <<messages, clock, db2>>
    ELSE IF db = "error" \/ ~ForeignKeyOk(conversations, conv_id[r])
    THEN \* sqlite3.Error on the INSERT or the commit, after datetime.now() was
         \* read: nothing is committed and db2.close() is not reached
         /\ Fail(r, o, OtherError)
         /\ clock' = clock + 1
         /\ db2' = [db2 EXCEPT ![r] = "error"]
         /\ UNCHANGED messages
    ELSE /\ messages' = InsertMessage(messages,
                               AssistantRow(conv_id[r], JoinTokens(tokens), clock))
         /\ clock' = clock + 1
         /\ db2' = [db2 EXCEPT ![r] = "closed"]
         /\ pc' = [pc EXCEPT ![r] = "yield_done"]
         /\ out' = [out EXCEPT ![r] = Append(o, DoneEvent(conv_id[r]))]

\* Without the inner except: the JSONDecodeError reaches except Exception
Dropped_Abort(r) ==
    /\ Fail(r, out[r], OtherError)
    /\ UNCHANGED <<full_response, chunk, messages, clock, db2>>

\* except json.JSONDecodeError: pass
Dropped(r) == UNCHANGED <<pc, out, full_response, chunk, messages, clock, db2>>

\* A relay that reads the history when the request is sent, not in chat()
open_stream_ReadLate(r) ==
    /\ pc[r] = "sending"
    /\ pc' = [pc EXCEPT ![r] = "streaming"]
    /\ opened' = [opened EXCEPT ![r] = @ + 1]
    /\ backend' = [backend EXCEPT ![r] = "open"]
    /\ payload' = [payload EXCEPT ![r] =
           BuildMessages(system_prompt[r], History(messages, conv_id[r]))]
    /\ UNCHANGED <<store, status, body, now, conv_id, system_prompt,
                   recv, chunk, full_response, db2, out>>

\* client.stream("POST", ...) connects and the response headers arrive
open_stream(r) ==
    /\ pc[r] = "sending"
    /\ pc' = [pc EXCEPT ![r] = "streaming"]
    /\ opened' = [opened EXCEPT ![r] = @ + 1]
    /\ backend' = [backend EXCEPT ![r] = "open"]
    /\ UNCHANGED <<store, handler, recv, chunk, full_response, db2, out>>

\* The same with a retry: the error is reported and the request sent again
connect_error_retry(r) ==
    /\ pc[r] = "sending"
    /\ opened' = [opened EXCEPT ![r] = @ + 1]
    /\ backend' = [backend EXCEPT ![r] = "refused"]
    /\ out' = [out EXCEPT ![r] = Append(@, ErrorEvent(CannotConnect))]
    /\ Len(out[r]) < MaxLines
    /\ UNCHANGED <<store, pc, handler, recv, chunk, full_response, db2>>

\* client.stream("POST", ...) raises httpx.ConnectError
connect_error(r) ==
    /\ pc[r] = "sending"
    /\ opened' = [opened EXCEPT ![r] = @ + 1]
    /\ backend' = [backend EXCEPT ![r] = "refused"]
    /\ Fail(r, out[r], CannotConnect)
    /\ UNCHANGED <<store, handler, recv, chunk, full_response, db2>>

\* client.stream("POST", ...) raises anything else (ConnectTimeout, ...)
connect_fault(r) ==
    /\ pc[r] = "sending"
    /\ opened' = [opened EXCEPT ![r] = @ + 1]
    /\ backend' = [backend EXCEPT ![r] = "unreachable"]
    /\ Fail(r, out[r], OtherError)
    /\ UNCHANGED <<store, handler, recv, chunk, full_response, db2>>

\* async for line in resp.aiter_lines(): the next line arrives; lines 427-433,
\* and 434-443 too when line 433 does not yield
read_line(r, line, db) ==
    /\ pc[r] = "streaming"
    /\ recv' = [recv EXCEPT ![r] = Append(@, line)]
    /\ IF ~NonBlank(line)
       THEN UNCHANGED <<pc, out, full_response, chunk, messages, clock, db2>>
       ELSE IF JSONDecodeError(line)
       THEN Dropped(r)
       ELSE IF MessageTestRaises(line)
       THEN /\ Fail(r, out[r], OtherError)
            /\ UNCHANGED <<full_response, chunk, messages, clock, db2>>
       ELSE IF HasContent(line)
       THEN /\ full_response' = [full_response EXCEPT ![r] = Append(@, Token(line))]
            /\ out' = [out EXCEPT ![r] = Append(@, TokenEvent(Token(line), conv_id[r]))]
            /\ chunk' = [chunk EXCEPT ![r] = line]
            /\ pc' = [pc EXCEPT ![r] = "yield_token"]
            /\ UNCHANGED <<messages, clock, db2>>
       ELSE /\ Completion(r, line, full_response[r], out[r], db)
            /\ UNCHANGED <<full_response, chunk>>
    /\ backend' = [backend EXCEPT ![r] = IF pc'[r] = "failed" THEN "closed" ELSE @]
    /\ UNCHANGED <<conversations, settings, profile, minted, handler, opened>>

\* The consumer asks for the next event after the token event: lines 434-443
resume_token(r, db) ==
    /\ pc[r] = "yield_token"
    /\ Completion(r, chunk[r], full_response[r], out[r], db)
    /\ backend' = [backend EXCEPT ![r] = IF pc'[r] = "failed" THEN "closed" ELSE @]
    /\ UNCHANGED <<conversations, settings, profile, minted,
                   handler, opened, recv, chunk, full_response>>

\* The consumer asks for the next event after the done event: the loop goes on
resume_done(r) ==
    /\ pc[r] = "yield_done"
    /\ pc' = [pc EXCEPT ![r] = "streaming"]
    /\ UNCHANGED <<store, handler, opened, backend, recv, chunk, full_response, db2, out>>

\* A relay that sends the request again when the stream closes early
stream_end_retry(r) ==
    /\ pc[r] = "streaming"
    /\ IF Emitted_done_none(r) /\ opened[r] < 2
       THEN /\ opened' = [opened EXCEPT ![r] = @ + 1]
            /\ UNCHANGED <<pc, backend>>
       ELSE /\ pc' = [pc EXCEPT ![r] = "closed"]
            /\ backend' = [backend EXCEPT ![r] = "eof"]
            /\ UNCHANGED opened
    /\ UNCHANGED <<store, handler, recv, chunk, full_response, db2, out>>

\* resp.aiter_lines() is exhausted: the backend closed the stream
stream_end(r) ==
    /\ pc[r] = "streaming"
    /\ pc' = [pc EXCEPT ![r] = "closed"]
    /\ backend' = [backend EXCEPT ![r] = "eof"]
    /\ UNCHANGED <<store, handler, opened, recv, chunk, full_response, db2, out>>

\* A fault handler that saves what was generated so far
stream_fault_persist_partial(r) ==
    /\ pc[r] = "streaming"
    /\ backend' = [backend EXCEPT ![r] = "fault"]
    /\ Fail(r, out[r], OtherError)
    /\ messages' =
            IF full_response[r] # <<>> /\ ~JoinRaises(full_response[r])
            THEN Append(messages,
                        AssistantRow(conv_id[r], JoinTokens(full_response[r]), clock))
            ELSE messages
    /\ UNCHANGED <<conversations, settings, profile, clock, minted,
                   handler, opened, recv, chunk, full_response, db2>>

\* resp.aiter_lines() raises (ReadError, ReadTimeout, ...)
stream_fault(r) ==
    /\ pc[r] = "streaming"
    /\ backend' = [backend EXCEPT ![r] = "fault"]
    /\ Fail(r, out[r], OtherError)
    /\ UNCHANGED <<store, handler, opened, recv, chunk, full_response, db2>>

\* abortController.abort(): the client disconnects and the generator is
\* cancelled at the await or yield where it is suspended
InFlight(r) == pc[r] \in {"sending", "streaming", "yield_token", "yield_done"}

\* An abort that takes the exchange back: the user turn is deleted
abort_rollback(r) ==
    /\ InFlight(r)
    /\ pc' = [pc EXCEPT ![r] = "aborted"]
    /\ backend' = [backend EXCEPT ![r] = IF @ = "open" THEN "closed" ELSE @]
    /\ messages' = SelectSeq(messages,
            LAMBDA m : ~(m.conversation_id = conv_id[r] /\ m.role = "user"
                         /\ m.created_at = now[r]))
    /\ UNCHANGED <<conversations, settings, profile, clock, minted,
                   handler, opened, recv, chunk, full_response, db2, out>>

\* An abort that saves what was generated so far
abort_persist_partial(r) ==
    /\ InFlight(r)
    /\ pc' = [pc EXCEPT ![r] = "aborted"]
    /\ backend' = [backend EXCEPT ![r] = IF @ = "open" THEN "closed" ELSE @]
    /\ messages' =
            IF full_response[r] # <<>> /\ ~JoinRaises(full_response[r])
            THEN Append(messages,
                        AssistantRow(conv_id[r], JoinTokens(full_response[r]), clock))
            ELSE messages
    /\ UNCHANGED <<conversations, settings, profile, clock, minted,
                   handler, opened, recv, chunk, full_response, db2, out>>

\* An abort that leaves the backend connection as it is
abort_leak(r) ==
    /\ InFlight(r)
    /\ pc' = [pc EXCEPT ![r] = "aborted"]
    /\ UNCHANGED <<store, handler, opened, backend, recv, chunk, full_response, db2, out>>

abort(r) ==
    /\ InFlight(r)
    /\ pc' = [pc EXCEPT ![r] = "aborted"]
    /\ backend' = [backend EXCEPT ![r] = IF @ = "open" THEN "closed" ELSE @]
    /\ UNCHANGED <<store, handler, opened, recv, chunk, full_response, db2, out>>

---------------------------------------------------------------------------
(* The other endpoints that write what the relay reads *)

\* str(value) of a JSON value
PyStr(j) == IF j.type = "string" THEN j.value ELSE IF j.value THEN "True" ELSE "False"

\* PUT /api/settings with body {"profile_enabled": value}
update_settings(value) ==
    /\ settings' = Put(settings, "profile_enabled", PyStr(value))
    /\ UNCHANGED <<conversations, messages, profile, clock, minted, relay>>

\* PUT /api/profile
update_profile(content) ==
    /\ profile' = content
    /\ UNCHANGED <<conversations, messages, settings, clock, minted, relay>>

\* DELETE /api/conversations/{conv_id}
delete_conversation(c) ==
    /\ c \in DOMAIN conversations
    /\ messages' = SelectSeq(messages, LAMBDA m : m.conversation_id # c)
    /\ conversations' = [k \in DOMAIN conversations \ {c} |-> conversations[k]]
    /\ UNCHANGED <<settings, profile, clock, minted, relay>>

---------------------------------------------------------------------------
(* Inputs *)

\* The seeded profile, a text that is not blank, shortened to one character
DEFAULT_PROFILE == <<"P">>

hi == <<"h", "i">>
yo == <<" ", "y", "o", "\n">>
Hel == <<"H", "e", "l">>
lo == <<"l", "o">>

Profiles == {DEFAULT_PROFILE, <<" ">>}
Flags ==
    {[type |-> "string", value |-> "true"], [type |-> "string", value |-> "false"],
     [type |-> "boolean", value |-> TRUE]}

\* The submissions a client can make: no conversation id or one it has been given
Bodies(texts, presets) ==
    [conversation_id : {NoConv} \cup (1 .. minted), message : texts,
     model : {DEFAULT_MODEL}, system_prompt : presets]

\* What the settings and the profile can hold, and the prompts a client can send
StoredFlags == {"true", "false", "True"}
ProfileTexts == {<<>>, <<"\n">>, <<"X">>, <<" ", "X", " ">>}
BeConcise == <<"B", "e", " ", "c", "o", "n", "c", "i", "s", "e", ".">>
PresetTexts == {<<>>, <<" ">>, <<"Y">>, <<" ", "Y", "\n">>, BeConcise}

\* Messages of exactly 80 characters and of 81, the second padded with blanks
Exactly80 == [i \in 1 .. TitleLen |-> "a"]
Over80 == <<" ">> \o [i \in 1 .. TitleLen + 1 |-> IF i > TitleLen THEN "z" ELSE "a"] \o <<"\n">>

SomeLines == {Fragment(Hel), DoneLine}

\* What the store answers to the INSERT of the assistant row and its commit:
\* done, or sqlite3.Error (database is locked, disk full)
StoreAnswers == {"ok", "error"}

AllLines ==
    {BlankLine, MalformedLine, NumberLine, ArrayLine, EmptyObjectLine, BadMessageLine,
     NoContentLine, BadContentLine, NotDoneLine, DoneLine,
     Fragment(Hel), Fragment(lo), LastFragment(lo)}

NoBody == [conversation_id |-> NoConv, message |-> <<>>, model |-> DEFAULT_MODEL,
           system_prompt |-> <<>>]

---------------------------------------------------------------------------
(* The system: init_db() has run, no submission has arrived *)

Init ==
    /\ conversations = <<>>
    /\ messages = <<>>
    /\ settings = [profile_enabled |-> "true", default_model |-> DEFAULT_MODEL]
    /\ profile = DEFAULT_PROFILE
    /\ clock = 0
    /\ minted = 0
    /\ pc = [r \in Requests |-> "idle"]
    /\ status = [r \in Requests |-> 0]
    /\ body = [r \in Requests |-> NoBody]
    /\ now = [r \in Requests |-> 0]
    /\ conv_id = [r \in Requests |-> NoConv]
    /\ system_prompt = [r \in Requests |-> <<>>]
    /\ payload = [r \in Requests |-> <<>>]
    /\ opened = [r \in Requests |-> 0]
    /\ backend = [r \in Requests |-> "none"]
    /\ recv = [r \in Requests |-> <<>>]
    /\ chunk = [r \in Requests |-> BlankLine]
    /\ full_response = [r \in Requests |-> <<>>]
    /\ db2 = [r \in Requests |-> "none"]
    /\ out = [r \in Requests |-> <<>>]

RECURSIVE SumLen(_, _)
SumLen(f, n) == IF n = 0 THEN 0 ELSE Len(f[n]) + SumLen(f, n - 1)

\* The backend lines read so far by all the relays
LinesRead == SumLen(recv, MaxReq)

\* Submissions are numbered in the order they arrive
Arrives(r) == IF r = 1 THEN TRUE ELSE pc[r - 1] # "idle"

\* One client: sendMessage() returns while isStreaming
OneAtATime(r) == IF r = 1 THEN TRUE ELSE pc[r - 1] # "idle" /\ ~InFlight(r - 1)

(* Concurrent submissions, relays, faults, aborts and deletions, with the   *)
(* backend lines bounded over all the relays together                      *)
Next ==
    \/ \E r \in Requests, b \in Bodies({<<>>, hi}, {<<>>}) : Arrives(r) /\ chat(r, b, "ok")
    \/ \E r \in Requests : open_stream(r)
    \/ \E r \in Requests : connect_error(r)
    \/ \E r \in Requests, line \in SomeLines : LinesRead < MaxLines /\ read_line(r, line, "ok")
    \/ \E r \in Requests : resume_token(r, "ok")
    \/ \E r \in Requests : resume_done(r)
    \/ \E r \in Requests : stream_end(r)
    \/ \E r \in Requests : stream_fault(r)
    \/ \E r \in Requests : abort(r)
    \/ \E c \in DOMAIN conversations : delete_conversation(c)

Spec == Init /\ [][Next]_vars

(* The relay taken alone: one submission, every kind of backend line *)
RelayNext ==
    \/ \E b \in Bodies({hi}, {<<>>}) : chat(1, b, "ok")
    \/ open_stream(1)
    \/ connect_error(1)
    \/ connect_fault(1)
    \/ \E line \in AllLines, db \in StoreAnswers :
            Len(recv[1]) < MaxRelayLines /\ read_line(1, line, db)
    \/ \E db \in StoreAnswers : resume_token(1, db)
    \/ resume_done(1)
    \/ stream_end(1)
    \/ stream_fault(1)
    \/ abort(1)
    \/ \E c \in DOMAIN conversations : delete_conversation(c)

RelaySpec == Init /\ [][RelayNext]_vars

(* Context assembly: one client submitting turn after turn, while the      *)
(* settings and the profile are edited; the backend answers each turn with *)
(* one final event, content and completion flag together                   *)
ChatNext ==
    \/ \E r \in Requests, b \in Bodies({<<" ">>, hi, yo}, {<<>>, <<"Y">>}) :
            OneAtATime(r) /\ chat(r, b, "ok")
    \/ \E r \in Requests : open_stream(r)
    \/ \E r \in Requests : recv[r] = <<>> /\ read_line(r, LastFragment(lo), "ok")
    \/ \E r \in Requests : resume_token(r, "ok")
    \/ \E r \in Requests : resume_done(r)
    \/ \E r \in Requests : stream_end(r)
    \/ \E value \in Flags : update_settings(value)
    \/ \E content \in Profiles : update_profile(content)

ChatSpec == Init /\ [][ChatNext]_vars

(* Prompt composition and conversation creation: the settings and the      *)
(* profile hold any of the values the update endpoints can have stored;    *)
(* the composer is called on its own and by chat(), with short and long    *)
(* messages                                                                *)
ComposeInit ==
    /\ conversations = <<>>
    /\ messages = <<>>
    /\ settings \in {[profile_enabled |-> f, default_model |-> DEFAULT_MODEL] :
                        f \in StoredFlags}
    /\ profile \in ProfileTexts
    /\ clock = 0
    /\ minted = 0
    /\ pc = [r \in Requests |-> "idle"]
    /\ status = [r \in Requests |-> 0]
    /\ body = [r \in Requests |-> NoBody]
    /\ now = [r \in Requests |-> 0]
    /\ conv_id = [r \in Requests |-> NoConv]
    /\ system_prompt = [r \in Requests |-> <<>>]
    /\ payload = [r \in Requests |-> <<>>]
    /\ opened = [r \in Requests |-> 0]
    /\ backend = [r \in Requests |-> "none"]
    /\ recv = [r \in Requests |-> <<>>]
    /\ chunk = [r \in Requests |-> BlankLine]
    /\ full_response = [r \in Requests |-> <<>>]
    /\ db2 = [r \in Requests |-> "none"]
    /\ out = [r \in Requests |-> <<>>]

ComposeNext ==
    \/ \E r \in Requests, extra_prompt \in PresetTexts :
            Arrives(r) /\ compose(r, extra_prompt)
    \/ \E r \in Requests, b \in Bodies({hi}, PresetTexts) \cup
                                   Bodies({yo, Exactly80, Over80}, {<<>>}) :
            Arrives(r) /\ chat(r, b, "ok")

ComposeSpec == ComposeInit /\ [][ComposeNext]_vars

(* Submissions that interleave on the conversations they share, with       *)
(* different texts, the store failing under some of them, and conversations *)
(* deleted under the relays; the backend answers with the completion event *)
InterleaveNext ==
    \/ \E r \in Requests, b \in Bodies({hi, yo}, {<<>>}), db \in StoreAnswers :
            Arrives(r) /\ chat(r, b, db)
    \/ \E r \in Requests : open_stream(r)
    \/ \E r \in Requests : recv[r] = <<>> /\ read_line(r, DoneLine, "ok")
    \/ \E r \in Requests : resume_done(r)
    \/ \E r \in Requests : stream_end(r)
    \/ \E c \in DOMAIN conversations : delete_conversation(c)

InterleaveSpec == Init /\ [][InterleaveNext]_vars

---------------------------------------------------------------------------
(* Vocabulary of the properties *)

\* The text is empty or whitespace only
Blank(text) == \A i \in 1 .. Len(text) : text[i] \in Space

\* The handler accepted the submission and returned the event stream
Accepted(r) == pc[r] \notin {"idle", "rejected", "crashed"}

Exists(cid) == cid \in DOMAIN conversations

\* The rows of one conversation, in insertion order
Rows(msgs, cid) == SelectSeq(msgs, LAMBDA m : m.conversation_id = cid)

RECURSIVE TurnsOf(_, _)
\* The transcript of one conversation as role/content pairs, in insertion order
TurnsOf(msgs, cid) ==
    IF msgs = <<>> THEN <<>>
    ELSE (IF Head(msgs).conversation_id = cid
          THEN <<[role |-> Head(msgs).role, content |-> Head(msgs).content]>>
          ELSE <<>>) \o TurnsOf(Tail(msgs), cid)

\* The user turn of submission r, as it must stand in the store
UserTurn(r) ==
    [conversation_id |-> conv_id[r], role |-> "user",
     content |-> Strip(body[r].message), created_at |-> now[r]]

Copies(msgs, row) == Cardinality({i \in 1 .. Len(msgs) : msgs[i] = row})

\* The assistant turns written in the conversation of r since r was submitted
AssistantTurns(r) ==
    SelectSeq(messages, LAMBDA m : /\ m.conversation_id = conv_id[r]
                                    /\ m.role = "assistant"
                                    /\ m.created_at > now[r])

\* The user turn of r is the most recent turn of its conversation
UserTurnIsLast(r) ==
    LET rows == Rows(messages, conv_id[r])
    IN  rows # <<>> /\ rows[Len(rows)] = UserTurn(r)

Emitted(r, Kind(_)) == SelectSeq(out[r], Kind)

RECURSIVE Concat(_)
Concat(texts) == IF texts = <<>> THEN <<>> ELSE Head(texts) \o Concat(Tail(texts))

\* The concatenation, in order, of the fragments emitted to the client
EmittedText(r) ==
    LET tokens == Emitted(r, IsToken)
    IN  Concat([i \in 1 .. Len(tokens) |-> tokens[i].token.text])

\* The completion flag is set on the line
Completes(line) == line.kind = "object" /\ line.done = "true"

\* The line carries a text fragment
FragmentBearing(line) ==
    line.kind = "object" /\ line.message = "object" /\ line.content = "string"

SawCompletion(r) == \E i \in 1 .. Len(recv[r]) : Completes(recv[r][i])

\* The line was just read by relay r
JustRead(r, line) == recv'[r] = Append(recv[r], line)

---------------------------------------------------------------------------
C2_AssistantIsAllEmitted ==
    \A r \in Requests :
        (Emitted(r, IsDone) # <<>> /\ Exists(conv_id[r]))
            => \E i \in 1 .. Len(messages) :
                    /\ messages[i].conversation_id = conv_id[r]
                    /\ messages[i].role = "assistant"
                    /\ messages[i].content = EmittedText(r)

(* C3: an assistant turn is in the store only if the relay of its          *)
(* conversation has read a line with the completion flag set; a stream     *)
(* that ends without one leaves no assistant turn, whatever it carried.    *)
C3_AssistantOnlyAfterCompletion ==
    \A i \in 1 .. Len(messages) :
        messages[i].role = "assistant"
            => \E r \in Requests :
                    conv_id[r] = messages[i].conversation_id /\ SawCompletion(r)

C3_Witness ==
    /\ pc[1] = "closed" /\ backend[1] = "eof"
    /\ Len(full_response[1]) >= 2
    /\ ~SawCompletion(1)
    /\ TurnsOf(messages, conv_id[1]) = <<[role |-> "user", content |-> hi]>>

(* C4, as claimed: an aborted turn has no assistant turn in the store and  *)
(* its user turn is the last of the conversation, wherever the abort fell. *)
C4_AbortedNeverPersists ==
    \A r \in Requests :
        (pc[r] = "aborted" /\ Exists(conv_id[r]))
            => AssistantTurns(r) = <<>> /\ UserTurnIsLast(r)

(* C4, amended: the same for an abort that falls before the completion     *)
(* event is handled, that is before the done event is handed over.         *)
C4_AbortedBeforeCompletion ==
    \A r \in Requests :
        (pc[r] = "aborted" /\ Emitted(r, IsDone) = <<>> /\ Exists(conv_id[r]))
            => AssistantTurns(r) = <<>> /\ UserTurnIsLast(r)

C4_Witness ==
    /\ pc[1] = "aborted" /\ Len(full_response[1]) >= 2
    /\ Emitted(1, IsDone) = <<>>
    /\ AssistantTurns(1) = <<>> /\ UserTurnIsLast(1)

(* C5: the message list built by an accepted submission is one system      *)
(* message exactly when the composed prompt is not empty, then the N turns *)
(* the conversation had, in insertion order, then the new user turn; its   *)
(* length is (0 or 1) + N + 1.                                             *)
C5_MessageList ==
    [][\A r \in Requests :
        (pc[r] = "idle" /\ pc'[r] = "sending") =>
            LET prompt == build_system_prompt(settings, profile, body'[r].system_prompt)
                system == IF prompt # <<>>
                          THEN <<[role |-> "system", content |-> prompt]>> ELSE <<>>
                prior == TurnsOf(messages, conv_id'[r])
                new == [role |-> "user", content |-> Strip(body'[r].message)]
            IN  /\ payload'[r] = system \o prior \o <<new>>
                /\ Len(payload'[r]) = Len(system) + Len(prior) + 1
                /\ Len(system) \in {0, 1}]_vars

C5_Witness ==
    \E r \in Requests :
        /\ pc[r] = "sending" /\ Len(payload[r]) = 4
        /\ payload[r][1].role = "system" /\ payload[r][2].role = "user"
        /\ payload[r][3].role = "assistant" /\ payload[r][4].role = "user"

(* C6: a submission whose message is empty or blank is answered 400 and    *)
(* changes nothing: no conversation created or touched, no turn written,   *)
(* and no backend request then or later.                                   *)
C6_BlankRejected ==
    [][\A r \in Requests :
        /\ pc'[r] = "rejected" => status'[r] = 400 /\ opened'[r] = 0
        /\ (pc[r] = "idle" /\ pc'[r] # "idle" /\ Blank(body'[r].message)) =>
                /\ pc'[r] = "rejected"
                /\ conversations' = conversations
                /\ messages' = messages
                /\ minted' = minted]_vars

C6_Witness ==
    \E r \in Requests :
        /\ pc[r] = "rejected" /\ status[r] = 400
        /\ body[r].message = <<" ">> /\ body[r].conversation_id # NoConv
        /\ messages # <<>>

(* C7: a refused connection gives the client one error event, the one that *)
(* names the unreachable backend, and nothing else; the relay has ended    *)
(* and no assistant turn was written.                                      *)
C7_ConnectionRefused ==
    \A r \in Requests :
        backend[r] = "refused" =>
            /\ out[r] = <<[error |-> "Cannot connect to Ollama. Is it running?"]>>
            /\ pc[r] = "failed"
            /\ opened[r] = 1
            /\ Exists(conv_id[r]) => AssistantTurns(r) = <<>>

C7_Witness ==
    /\ backend[1] = "refused" /\ Len(out[1]) = 1 /\ IsError(out[1][1])
    /\ UserTurnIsLast(1)

\* A stream of fragment events closed by one completion event
FragmentsThenCompletion(lines) ==
    /\ lines # <<>>
    /\ \A i \in 1 .. Len(lines) - 1 : FragmentBearing(lines[i]) /\ ~Completes(lines[i])
    /\ Completes(lines[Len(lines)])
    /\ lines[Len(lines)].message = "absent" \/ FragmentBearing(lines[Len(lines)])

RECURSIVE TokensOf(_, _)
\* One token event per fragment of the stream, in order
TokensOf(lines, cid) ==
    IF lines = <<>> THEN <<>>
    ELSE (IF FragmentBearing(Head(lines))
          THEN <<[token |-> [str |-> TRUE, text |-> Head(lines).text],
                  conversation_id |-> cid]>>
          ELSE <<>>) \o TokensOf(Tail(lines), cid)

(* C8: when the backend stream was k fragment events and then one          *)
(* completion event, and the relay read it to its end, the client got the  *)
(* k token events, same fragments, same order, then one done event, and    *)
(* nothing else.                                                           *)
C8_TokensThenDone ==
    \A r \in Requests :
        (pc[r] = "closed" /\ FragmentsThenCompletion(recv[r])) =>
            out[r] = TokensOf(recv[r], conv_id[r])
                        \o <<[done |-> TRUE, conversation_id |-> conv_id[r]]>>

C8_Witness ==
    /\ pc[1] = "closed"
    /\ recv[1] = <<Fragment(Hel), Fragment(lo), DoneLine>>
    /\ Len(out[1]) = 3 /\ out[1][1].token.text = Hel /\ out[1][2].token.text = lo
    /\ IsDone(out[1][3])
    /\ \E i \in 1 .. Len(messages) :
            messages[i].role = "assistant" /\ messages[i].content = Hel \o lo

(* C9: reading a line that does not parse emits nothing, leaves the        *)
(* accumulator, the store and the relay's position as they were, and the   *)
(* tokens emitted are always those of the fragments read, so the lines     *)
(* around it are handled as if it had not been sent.                       *)
C9_MalformedDropped ==
    [][\A r \in Requests :
        /\ SelectSeq(out'[r], LAMBDA e : IsToken(e) /\ e.token.str)
                = TokensOf(recv'[r], conv_id'[r])
        /\ JustRead(r, MalformedLine) =>
                /\ out'[r] = out[r]
                /\ full_response'[r] = full_response[r]
                /\ pc'[r] = "streaming"
                /\ messages' = messages]_vars

C9_Witness ==
    /\ recv[1] = <<Fragment(Hel), MalformedLine, DoneLine>>
    /\ Len(out[1]) = 2 /\ out[1][1].token.text = Hel /\ IsDone(out[1][2])
    /\ pc[1] = "yield_done"

\* The line parses and has neither the fragment shape nor the completion shape
NeitherShape(line) ==
    /\ line.kind \notin {"blank", "malformed"}
    /\ ~(line.kind = "object" /\ line.message = "object" /\ line.content # "absent")
    /\ ~Completes(line)

(* C10, as claimed: reading a line that parses and has neither shape emits *)
(* no error event and does not end the relay.                              *)
C10_NeitherShapeTolerated ==
    [][\A r \in Requests : \A line \in AllLines :
            (JustRead(r, line) /\ NeitherShape(line)) =>
                /\ out'[r] = out[r]
                /\ pc'[r] = "streaming"]_vars

---------------------------------------------------------------------------
(* Prompt composition *)

\* The composer has run for r, on its own or within chat()
Composed(r) == pc[r] \in {"composed", "sending"}

\* Profile injection is switched on in the store
ProfileEnabled == settings["profile_enabled"] = "true"

\* The segments the composed prompt is made of, trimmed
ProfileSegment == IF ProfileEnabled /\ ~Blank(profile) THEN <<Strip(profile)>> ELSE <<>>
PresetSegment(text) == IF ~Blank(text) THEN <<Strip(text)>> ELSE <<>>

(* C11: the composed prompt is the trimmed profile when the profile is     *)
(* enabled and not blank, then the trimmed preset when it is not blank,    *)
(* with the separator between the two when both are there and nowhere      *)
(* else; an empty profile with the preset "Be concise." gives              *)
(* "Be concise.", a disabled profile "X" with the preset "Y" gives "Y".    *)
C11_ComposedPrompt ==
    \A r \in Requests :
        Composed(r) =>
            LET preset == body[r].system_prompt
                segments == ProfileSegment \o PresetSegment(preset)
            IN  /\ Len(segments) = 0 => system_prompt[r] = <<>>
                /\ Len(segments) = 1 => system_prompt[r] = segments[1]
                /\ Len(segments) = 2 =>
                        system_prompt[r] = segments[1] \o Separator \o segments[2]
                /\ (profile = <<>> /\ preset = BeConcise) => system_prompt[r] = BeConcise
                /\ (profile = <<"X">> /\ ~ProfileEnabled /\ preset = <<"Y">>)
                        => system_prompt[r] = <<"Y">>

C11_Witness ==
    /\ pc[1] = "composed" /\ pc[2] = "composed"
    /\ profile = <<" ", "X", " ">> /\ ProfileEnabled
    /\ body[1].system_prompt = <<" ", "Y", "\n">>
    /\ system_prompt[1] = <<"X", "\n", "\n", "-", "-", "-", "\n", "\n", "Y">>
    /\ body[2].system_prompt = <<" ">> /\ system_prompt[2] = <<"X">>

\* The positions of the system messages in a message list
SystemMessages(list) == {i \in 1 .. Len(list) : list[i].role = "system"}

(* C12: when the profile is disabled or blank and the preset is blank, the *)
(* composed prompt is the empty string and the message list sent to the    *)
(* backend has no system message; otherwise it has exactly one, in first   *)
(* position, carrying the composed prompt.                                 *)
C12_SystemMessage ==
    \A r \in Requests :
        LET none == (~ProfileEnabled \/ Blank(profile)) /\ Blank(body[r].system_prompt)
        IN  /\ (Composed(r) /\ none) => system_prompt[r] = <<>>
            /\ (pc[r] = "sending" /\ none) => SystemMessages(payload[r]) = {}
            /\ (pc[r] = "sending" /\ ~none) =>
                    /\ SystemMessages(payload[r]) = {1}
                    /\ payload[r][1].content = system_prompt[r]
                    /\ system_prompt[r] # <<>>

C12_Witness ==
    /\ pc[1] = "sending" /\ pc[2] = "sending" /\ conv_id[1] = conv_id[2]
    /\ ProfileEnabled /\ profile = <<"\n">>
    /\ body[1].system_prompt = <<" ">> /\ Len(payload[1]) = 1
    /\ payload[1][1].role = "user"
    /\ body[2].system_prompt = <<"Y">> /\ Len(payload[2]) = 3
    /\ payload[2][1].role = "system" /\ payload[2][2].role = "user"

---------------------------------------------------------------------------
(* The transcript *)

\* The sequence s is the beginning of the sequence t
IsPrefix(s, t) == Len(s) <= Len(t) /\ SubSeq(t, 1, Len(s)) = s

(* C14: in every step, the rows of a conversation that exists before and   *)
(* after the step are still there, unchanged and in the same order, at the *)
(* head of its transcript; and an accepted submission adds its user turn   *)
(* as one more row, also when it repeats the turn before it.               *)
C14_AppendOnly ==
    [][/\ \A c \in DOMAIN conversations :
            c \in DOMAIN conversations' => IsPrefix(Rows(messages, c), Rows(messages', c))
       /\ \A r \in Requests :
            (pc[r] = "idle" /\ pc'[r] = "sending") =>
                Rows(messages', conv_id'[r])
                    = Append(Rows(messages, conv_id'[r]),
                             [conversation_id |-> conv_id'[r], role |-> "user",
                              content |-> Strip(body'[r].message),
                              created_at |-> now'[r]])]_vars

C14_Witness ==
    /\ pc[1] = "aborted" /\ pc[2] = "failed" /\ conv_id[1] = conv_id[2]
    /\ TurnsOf(messages, conv_id[1])
            = <<[role |-> "user", content |-> hi], [role |-> "user", content |-> hi]>>

(* C15, as claimed: whenever a conversation has turns, its updated_at is   *)
(* not earlier than the created_at of its most recent turn, whether that   *)
(* turn is a user turn or an assistant turn.                               *)
C15_UpdatedAtCoversLastTurn ==
    \A c \in DOMAIN conversations :
        LET rows == Rows(messages, c)
        IN  rows # <<>> => conversations[c].updated_at >= rows[Len(rows)].created_at

---------------------------------------------------------------------------
(* The relay *)

\* The last row of the table messages
LastRow(msgs) == msgs[Len(msgs)]

(* C16: the token events and the done events of a turn all carry the       *)
(* conv_id the handler resolved: the id sent with the submission, or an id *)
(* no conversation had before when none was sent; the handler wrote the    *)
(* user turn under that id, and the step that emits done writes the        *)
(* assistant turn under it.                                                *)
C16_ResolvedConversationId ==
    [][\A r \in Requests :
        /\ \A i \in 1 .. Len(out'[r]) :
                (IsToken(out'[r][i]) \/ IsDone(out'[r][i]))
                    => out'[r][i].conversation_id = conv_id'[r]
        /\ pc[r] \notin {"idle"} => conv_id'[r] = conv_id[r]
        /\ (pc[r] = "idle" /\ pc'[r] = "sending") =>
                /\ IF body'[r].conversation_id = NoConv
                   THEN conv_id'[r] \notin DOMAIN conversations /\ conv_id'[r] > minted
                   ELSE conv_id'[r] = body'[r].conversation_id
                /\ conv_id'[r] \in DOMAIN conversations'
                /\ LastRow(messages').role = "user"
                /\ LastRow(messages').conversation_id = conv_id'[r]
        /\ Len(Emitted(r, IsDone)') > Len(Emitted(r, IsDone)) =>
                /\ Len(messages') = Len(messages) + 1
                /\ LastRow(messages').role = "assistant"
                /\ LastRow(messages').conversation_id = LastRow(out'[r]).conversation_id]_vars

C16_Witness ==
    /\ body[1].conversation_id = NoConv /\ body[2].conversation_id = NoConv
    /\ Len(out[1]) = 2 /\ IsToken(out[1][1]) /\ IsDone(out[1][2])
    /\ out[1][1].conversation_id = 1 /\ out[1][2].conversation_id = 1
    /\ Len(out[2]) = 2 /\ IsToken(out[2][1]) /\ IsDone(out[2][2])
    /\ out[2][1].conversation_id = 2 /\ out[2][2].conversation_id = 2
    /\ [i \in 1 .. Len(messages) |-> messages[i].conversation_id] = <<1, 1, 2, 2>>

(* C17, as claimed: once a done event was emitted for a turn, no further   *)
(* backend line is read, no further event of any kind is emitted, and no   *)
(* further row is written.                                                 *)
C17_RelayEndsAtDone ==
    [][\A r \in Requests :
        Emitted(r, IsDone) # <<>> =>
            /\ recv'[r] = recv[r]
            /\ out'[r] = out[r]
            /\ Len(messages') <= Len(messages)]_vars

\* The line whose handling the step of relay r carries on: the one it reads,
\* or the one in hand at the token yield
InHand(r) == IF pc[r] = "yield_token" THEN chunk[r] ELSE LastRow(recv'[r])

\* The step handles a line of relay r
Handles(r) == pc[r] = "yield_token" \/ (pc[r] = "streaming" /\ recv'[r] # recv[r])

(* C18, as claimed: the relay moves idle, sending, streaming, completing,  *)
(* done; the error event is never emitted while a line with the completion *)
(* flag is being handled, nor after a done event; and once done is         *)
(* emitted the relay does not go back to reading.                          *)
C18_RelayTransitions ==
    [][\A r \in Requests :
        /\ (pc[r] = "idle" /\ pc'[r] # "idle") =>
                pc'[r] \in {"sending", "rejected", "crashed"}
        /\ (pc[r] = "sending" /\ pc'[r] # "sending") =>
                pc'[r] \in {"streaming", "failed", "aborted"}
        /\ (pc'[r] = "failed" /\ pc[r] # "failed") =>
                /\ Emitted(r, IsDone) = <<>>
                /\ ~(Handles(r) /\ Completes(InHand(r)))
        /\ pc[r] = "yield_done" => pc'[r] \in {"yield_done", "aborted"}]_vars

(* C19: when the read of the backend stream fails before any completion    *)
(* event, whatever was forwarded until then, the client gets the tokens    *)
(* forwarded and then one error event, the only one; the relay has ended   *)
(* and no assistant turn was written.                                      *)
C19_FaultWhileStreaming ==
    \A r \in Requests :
        (backend[r] = "fault" /\ ~SawCompletion(r)) =>
            /\ pc[r] = "failed"
            /\ Len(Emitted(r, IsError)) = 1
            /\ IsError(LastRow(out[r]))
            /\ Len(Emitted(r, IsToken)) = Len(out[r]) - 1
            /\ Len(Emitted(r, IsToken)) = Len(full_response[r])
            /\ Exists(conv_id[r]) => AssistantTurns(r) = <<>> /\ UserTurnIsLast(r)

C19_Witness ==
    /\ backend[1] = "fault" /\ pc[1] = "failed"
    /\ recv[1] = <<Fragment(Hel), Fragment(lo)>>
    /\ Len(out[1]) = 3 /\ IsToken(out[1][1]) /\ IsToken(out[1][2]) /\ IsError(out[1][3])
    /\ TurnsOf(messages, conv_id[1]) = <<[role |-> "user", content |-> hi]>>

(* C20, as claimed: the token and done events emitted by a relay are never *)
(* more than the backend lines it has read, one emission at most for each  *)
(* line, a line with both a fragment and the completion flag included.     *)
C20_LockStep ==
    \A r \in Requests :
        Len(Emitted(r, IsToken)) + Len(Emitted(r, IsDone)) <= Len(recv[r])

---------------------------------------------------------------------------
(* Connections *)

\* The relays that hold a connection to the backend
OpenConnections == {r \in Requests : backend[r] = "open"}

(* C21: a relay that was aborted reads no further backend line, emits and  *)
(* accumulates nothing further, and holds no backend connection; this for  *)
(* every abort of a run, so that no connection is open when no turn is in  *)
(* flight.                                                                 *)
C21_AbortReleases ==
    [][/\ \A r \in Requests :
            /\ pc'[r] = "aborted" => backend'[r] # "open"
            /\ pc[r] = "aborted" =>
                    /\ pc'[r] = "aborted"
                    /\ recv'[r] = recv[r]
                    /\ out'[r] = out[r]
                    /\ full_response'[r] = full_response[r]
       /\ (\A r \in Requests : ~InFlight(r)') => OpenConnections' = {}]_vars

C21_Witness ==
    /\ pc[1] = "aborted" /\ pc[2] = "aborted"
    /\ Len(recv[1]) = 1 /\ Len(recv[2]) = 1
    /\ opened = <<1, 1>> /\ OpenConnections = {}

(* C22: a submission opens at most one streaming request to the backend,   *)
(* however its turn goes, and none when it is rejected; the requests       *)
(* opened are never more than the submissions accepted.                    *)
C22_NoRetry ==
    /\ \A r \in Requests :
            /\ opened[r] <= 1
            /\ ~Accepted(r) => opened[r] = 0
            /\ pc[r] \in {"streaming", "yield_token", "yield_done", "closed", "failed"}
                    => opened[r] = 1
    /\ SumLen([r \in Requests |-> [i \in 1 .. opened[r] |-> r]], MaxReq)
            <= Cardinality({r \in Requests : Accepted(r)})

C22_Witness ==
    /\ pc[1] = "closed" /\ ~SawCompletion(1) /\ recv[1] # <<>>
    /\ pc[2] = "failed" /\ backend[2] = "fault"
    /\ opened = <<1, 1>>

---------------------------------------------------------------------------
(* Concurrent turns *)

\* The step is one of submission r: its handler or its relay moves
StepOf(r) == pc'[r] # pc[r] \/ recv'[r] # recv[r]

\* The text of the fragments among the lines
TextOf(lines) ==
    LET tokens == TokensOf(lines, NoConv)
    IN  Concat([i \in 1 .. Len(tokens) |-> tokens[i].token.text])

(* C23: a step of one turn, whether it reads, fails, closes early or is    *)
(* aborted, changes neither the events emitted for a turn on another       *)
(* conversation, nor where that turn stands, nor the rows of that          *)
(* conversation; and the tokens a turn emits and the assistant turn it     *)
(* writes are the fragments of the lines its own relay has read.           *)
C23_Isolation ==
    [][\A q \in Requests :
        /\ \A r \in Requests \ {q} :
                (StepOf(r) /\ Accepted(q) /\ conv_id'[r] # conv_id[q]) =>
                    /\ out'[q] = out[q]
                    /\ pc'[q] = pc[q]
                    /\ full_response'[q] = full_response[q]
                    /\ \/ messages' = messages
                       \/ Rows(messages', conv_id[q]) = Rows(messages, conv_id[q])
        /\ (out'[q] # out[q] \/ recv'[q] # recv[q]) =>
                Emitted(q, IsToken)' = TokensOf(recv'[q], conv_id'[q])
        /\ (out'[q] # out[q] /\ IsDone(LastRow(out'[q]))) =>
                /\ LastRow(messages').conversation_id = conv_id[q]
                /\ LastRow(messages').content = TextOf(recv'[q])]_vars

C23_Witness ==
    /\ conv_id[1] = 1 /\ conv_id[2] = 2
    /\ pc[1] = "failed" /\ backend[1] = "fault" /\ out[1] = <<ErrorEvent(OtherError)>>
    /\ pc[2] = "closed" /\ recv[2] = <<Fragment(Hel), DoneLine>>
    /\ Len(out[2]) = 2 /\ IsToken(out[2][1]) /\ IsDone(out[2][2])
    /\ TurnsOf(messages, 1) = <<[role |-> "user", content |-> hi]>>
    /\ TurnsOf(messages, 2) = <<[role |-> "user", content |-> hi],
                                [role |-> "assistant", content |-> Hel]>>

---------------------------------------------------------------------------
(* Completion *)

\* The lines read by relay r that carry the completion flag
Completions(r) == {i \in 1 .. Len(recv[r]) : Completes(recv[r][i])}

(* C24: when the store raised as the relay was writing the assistant turn  *)
(* of the first completion event, the relay has failed: its last event is  *)
(* the error event, the only one, no done event was emitted, no assistant  *)
(* turn was written, and the user turn of the submission is still the last *)
(* turn of its conversation, once, for as long as the conversation exists. *)
C24_StoreFailsAtCompletion ==
    \A r \in Requests :
        (db2[r] = "error" /\ Cardinality(Completions(r)) = 1) =>
            /\ pc[r] = "failed"
            /\ IsError(LastRow(out[r]))
            /\ Len(Emitted(r, IsError)) = 1
            /\ Emitted(r, IsDone) = <<>>
            /\ Exists(conv_id[r]) =>
                    /\ AssistantTurns(r) = <<>>
                    /\ Copies(messages, UserTurn(r)) = 1
                    /\ UserTurnIsLast(r)

C24_Witness ==
    /\ db2[1] = "error" /\ Exists(conv_id[1])
    /\ recv[1] = <<Fragment(Hel), LastFragment(lo)>>
    /\ Len(out[1]) = 3 /\ IsToken(out[1][1]) /\ IsToken(out[1][2]) /\ IsError(out[1][3])
    /\ TurnsOf(messages, conv_id[1]) = <<[role |-> "user", content |-> hi]>>

---------------------------------------------------------------------------
(* Settings *)

\* The stored flag is the string form of a true value
StoredTrue == settings["profile_enabled"] \in {"true", "True"}

(* C25, as claimed: the prompt composed for a submission follows the flag  *)
(* and the profile as the store holds them when the submission arrives;    *)
(* the profile, when not blank, is included whenever the flag was last set *)
(* to a true value, the boolean true as well as the string "true".         *)
C25_SettingTakesEffect ==
    [][\A r \in Requests :
        (pc[r] = "idle" /\ pc'[r] = "sending") =>
            system_prompt'[r] =
                Join(Separator,
                     (IF StoredTrue /\ ~Blank(profile) THEN <<Strip(profile)>> ELSE <<>>)
                        \o PresetSegment(body'[r].system_prompt))]_vars

---------------------------------------------------------------------------
(* Conversations *)

(* C26: an accepted submission without a conversation id adds exactly one  *)
(* conversation, under an id no conversation had, titled with the trimmed  *)
(* message when it has at most 80 characters and with its first 80         *)
(* characters and "..." otherwise; one with the id of a conversation adds  *)
(* none and changes only the updated_at of that conversation.              *)
C26_ConversationCreated ==
    [][\A r \in Requests :
        (pc[r] = "idle" /\ pc'[r] = "sending") =>
            LET text == Strip(body'[r].message)
                c == conv_id'[r]
            IN  IF body'[r].conversation_id = NoConv
                THEN /\ c \notin DOMAIN conversations
                     /\ c \notin {conv_id[q] : q \in Requests}
                     /\ DOMAIN conversations' = DOMAIN conversations \cup {c}
                     /\ \A k \in DOMAIN conversations : conversations'[k] = conversations[k]
                     /\ conversations'[c].title =
                            IF Len(text) <= 80 THEN text
                            ELSE SubSeq(text, 1, 80) \o <<".", ".", ".">>
                     /\ conversations'[c].model = body'[r].model
                ELSE /\ c = body'[r].conversation_id
                     /\ DOMAIN conversations' = DOMAIN conversations
                     /\ \A k \in DOMAIN conversations \ {c} :
                            conversations'[k] = conversations[k]
                     /\ conversations'[c].title = conversations[c].title
                     /\ conversations'[c].model = conversations[c].model
                     /\ conversations'[c].created_at = conversations[c].created_at
                     /\ conversations'[c].updated_at = now'[r]
                     /\ conversations'[c].updated_at > conversations[c].updated_at]_vars

C26_Witness ==
    /\ pc[1] = "sending" /\ pc[2] = "sending"
    /\ body[1].message = Over80 /\ body[2].message = hi
    /\ body[2].conversation_id = 1
    /\ DOMAIN conversations = {1}
    /\ Len(conversations[1].title) = 83
    /\ conversations[1].title[1] = "a" /\ conversations[1].title[81] = "."
    /\ conversations[1].updated_at > conversations[1].created_at

\* The string form of a JSON value: a string is itself, true is "True"
StringForm(j) == IF j.type = "string" THEN j.value ELSE IF j.value THEN "True" ELSE "False"

(* C27: the prompt composed for a submission includes the profile, when    *)
(* not blank, exactly when the stored flag is the string "true"; a store   *)
(* with no flag composes as with "true"; and an update of the settings     *)
(* leaves in the store the string form of a value the client can send.     *)
C27_FlagIsString ==
    [][/\ \A r \in Requests :
            (pc[r] = "idle" /\ pc'[r] = "sending") =>
                system_prompt'[r] =
                    Join(Separator,
                         (IF settings["profile_enabled"] = "true" /\ ~Blank(profile)
                          THEN <<Strip(profile)>> ELSE <<>>)
                            \o PresetSegment(body'[r].system_prompt))
       /\ settings' # settings =>
            /\ DOMAIN settings' = DOMAIN settings
            /\ settings'["default_model"] = settings["default_model"]
            /\ \E j \in Flags : settings'["profile_enabled"] = StringForm(j)
       /\ build_system_prompt([default_model |-> DEFAULT_MODEL], profile, <<>>)
            = build_system_prompt([profile_enabled |-> "true"], profile, <<>>)]_vars

C27_Witness ==
    \E r \in Requests :
        /\ pc[r] = "sending" /\ settings["profile_enabled"] = "True"
        /\ profile = DEFAULT_PROFILE
        /\ body[r].system_prompt = <<"Y">> /\ system_prompt[r] = <<"Y">>
        /\ payload[r][1].content = <<"Y">>

---------------------------------------------------------------------------
(* The end of a turn *)

\* The relay of r reached one of the ends of a turn
Terminal(r) ==
    \/ Emitted(r, IsDone) # <<>>
    \/ Emitted(r, IsError) # <<>>
    \/ pc[r] \in {"closed", "aborted"}

(* C28, as claimed: once a relay has emitted done or an error event, or    *)
(* its stream was exhausted, or it was aborted, it emits nothing more.     *)
C28_NothingAfterTerminal ==
    [][\A r \in Requests : Terminal(r) => out'[r] = out[r]]_vars

(* C29, as claimed: a submission has at most one assistant turn written    *)
(* for it, and a conversation never has more assistant turns than user     *)
(* turns.                                                                  *)
C29_OneAssistantTurn ==
    \A r \in Requests :
        Exists(conv_id[r]) =>
            LET rows == Rows(messages, conv_id[r])
            IN  /\ Len(AssistantTurns(r)) <= 1
                /\ Len(SelectSeq(rows, LAMBDA m : m.role = "assistant"))
                        <= Len(SelectSeq(rows, LAMBDA m : m.role = "user"))

(* C30: in every state where a done event has been handed to the client,   *)
(* the assistant turn it announces is in the store, one for each done      *)
(* event, for as long as the conversation exists; and the step that emits  *)
(* done is the step that commits the turn and closes the connection.       *)
C30_DoneAfterCommit ==
    \A r \in Requests :
        /\ (Emitted(r, IsDone) # <<>> /\ Exists(conv_id[r]))
                => Len(AssistantTurns(r)) >= Len(Emitted(r, IsDone))
        /\ pc[r] = "yield_done" =>
                /\ db2[r] = "closed"
                /\ IsDone(LastRow(out[r]))
                /\ Exists(conv_id[r]) =>
                        /\ LastRow(Rows(messages, conv_id[r])).role = "assistant"
                        /\ LastRow(Rows(messages, conv_id[r])).content
                                = JoinTokens(full_response[r])

C30_Witness ==
    /\ pc[1] = "yield_done" /\ recv[1] = <<Fragment(Hel), LastFragment(lo)>>
    /\ IsDone(LastRow(out[1]))
    /\ TurnsOf(messages, conv_id[1])
            = <<[role |-> "user", content |-> hi],
                [role |-> "assistant", content |-> Hel \o lo]>>

(* C31, as claimed: the client receives at most one terminal event for a   *)
(* submission: never a done event and an error event both, never two error *)
(* events, never two done events, whatever the backend sends after the     *)
(* completion event.                                                       *)
C31_OneTerminalEvent ==
    \A r \in Requests :
        Len(Emitted(r, IsDone)) + Len(Emitted(r, IsError)) <= 1

---------------------------------------------------------------------------
(* Integrity of the store *)

\* The submission of r names a conversation that is not in the store
NamesMissing(r) ==
    /\ pc[r] = "idle" /\ pc'[r] # "idle"
    /\ body'[r].conversation_id # NoConv
    /\ body'[r].conversation_id \notin DOMAIN conversations

(* C32: after every step each turn in the store belongs to a conversation  *)
(* in the store; a submission that names a conversation not in the store   *)
(* is answered 500, writes no turn and creates no conversation; and a      *)
(* deletion takes the conversation and all its turns with it.              *)
C32_ReferentialIntegrity ==
    [][/\ \A i \in 1 .. Len(messages') :
            messages'[i].conversation_id \in DOMAIN conversations'
       /\ \A r \in Requests :
            (NamesMissing(r) /\ ~Blank(body'[r].message)) =>
                /\ pc'[r] = "crashed" /\ status'[r] = 500
                /\ messages' = messages
                /\ conversations' = conversations
       /\ \A c \in DOMAIN conversations :
            c \notin DOMAIN conversations' =>
                /\ Rows(messages', c) = <<>>
                /\ \A k \in DOMAIN conversations \ {c} :
                        /\ k \in DOMAIN conversations'
                        /\ Rows(messages', k) = Rows(messages, k)]_vars

C32_Witness ==
    /\ pc[2] = "crashed" /\ status[2] = 500
    /\ body[2].conversation_id = 1 /\ body[2].message = yo
    /\ pc[1] = "failed" /\ conv_id[1] = 1 /\ recv[1] = <<DoneLine>>
    /\ now[2] = 2
    /\ conversations = <<>> /\ messages = <<>>

\* The step of relay r runs the completion block on a line with the flag set
RunsCompletion(r) ==
    \/ /\ pc[r] = "yield_token" /\ pc'[r] \notin {"yield_token", "aborted"}
       /\ Completes(chunk[r])
    \/ /\ pc[r] = "streaming" /\ recv'[r] # recv[r] /\ pc'[r] # "yield_token"
       /\ Completes(LastRow(recv'[r]))

(* C33: when the conversation of a relay was deleted before its completion *)
(* event, the step that handles the completion event writes no turn, ends  *)
(* the relay with one error event after the tokens and no done event, and  *)
(* leaves the conversation deleted; no step brings a deleted conversation  *)
(* back.                                                                   *)
C33_DeletedWhileStreaming ==
    [][/\ \A r \in Requests :
            (RunsCompletion(r) /\ ~Exists(conv_id[r]) /\ Emitted(r, IsDone) = <<>>) =>
                /\ messages' = messages
                /\ conversations' = conversations
                /\ pc'[r] = "failed"
                /\ out'[r] = Append(out[r], [error |-> OtherError])
                /\ Emitted(r, IsDone)' = <<>>
                /\ Len(Emitted(r, IsError)') = 1
       /\ \A c \in 1 .. minted :
            c \notin DOMAIN conversations => c \notin DOMAIN conversations']_vars

C33_Witness ==
    /\ pc[1] = "failed" /\ db2[1] = "error"
    /\ recv[1] = <<Fragment(Hel), LastFragment(lo)>>
    /\ Len(out[1]) = 3 /\ IsToken(out[1][1]) /\ IsToken(out[1][2]) /\ IsError(out[1][3])
    /\ conversations = <<>> /\ messages = <<>>

---------------------------------------------------------------------------
(* Interleaved submissions *)

\* The submissions that sent no conversation id and were given c by chat()
Creators(c) ==
    {r \in Requests : /\ pc[r] # "idle"
                      /\ body[r].conversation_id = NoConv
                      /\ conv_id[r] = c}

(* C34: in every state, a conversation that chat() created and that is in  *)
(* the store has turns, the first of them the user turn of the submission  *)
(* that created it; and a submission whose write of the user turn failed   *)
(* has left no conversation and no turn under the id it was to create.     *)
C34_CreatedWithFirstTurn ==
    /\ \A c \in DOMAIN conversations : \A r \in Creators(c) :
            /\ Rows(messages, c) # <<>>
            /\ Head(Rows(messages, c)) = UserTurn(r)
            /\ conversations[c].created_at = now[r]
    /\ \A r \in Requests :
            (pc[r] = "crashed" /\ body[r].conversation_id = NoConv) =>
                /\ status[r] = 500
                /\ conv_id[r] \notin DOMAIN conversations
                /\ Rows(messages, conv_id[r]) = <<>>

C34_Witness ==
    /\ pc[1] = "crashed" /\ body[1].conversation_id = NoConv /\ conv_id[1] = 1
    /\ pc[2] = "sending" /\ body[2].conversation_id = NoConv /\ conv_id[2] = 2
    /\ DOMAIN conversations = {2}
    /\ TurnsOf(messages, 2) = <<[role |-> "user", content |-> <<"y", "o">>]>>

(* C35: the message list of an accepted submission ends with the user turn *)
(* of that submission, its own trimmed text, whatever other submissions    *)
(* wrote to the same conversation before or after it; and of two accepted  *)
(* submissions on one conversation the later has the longer list.          *)
C35_EndsWithOwnText ==
    \A r \in Requests :
        Accepted(r) =>
            /\ payload[r] # <<>>
            /\ LastRow(payload[r]) = [role |-> "user", content |-> Strip(body[r].message)]
            /\ \A q \in Requests :
                    (Accepted(q) /\ conv_id[q] = conv_id[r] /\ now[q] < now[r])
                        => Len(payload[q]) < Len(payload[r])

C35_Witness ==
    /\ pc[1] = "yield_done" /\ pc[2] = "sending" /\ conv_id[1] = 1 /\ conv_id[2] = 1
    /\ body[1].message = hi /\ body[2].message = yo
    /\ LastRow(payload[1]).content = hi
    /\ LastRow(payload[2]).content = <<"y", "o">>
    /\ TurnsOf(messages, 1) = <<[role |-> "user", content |-> hi],
                                [role |-> "user", content |-> <<"y", "o">>],
                                [role |-> "assistant", content |-> <<>>]>>

=============================================================================
